---- MODULE Spec2Model ----
(***************************************************************************)
(* shift_watcher.py: overlapping invocations of main() against one SQLite  *)
(* database.  Each invocation ("run") opens the database, scans the        *)
(* configured sources, aggregates the (code, url) pairs, inserts them in   *)
(* one transaction and notifies the newly inserted ones.                   *)
(*                                                                         *)
(* Codes and urls are numbers: the order of the numbers stands for the     *)
(* lexicographic order Python's sorted() uses on the strings.              *)
(*                                                                         *)
(* The INSERT and the commit can meet a storage malfunction                *)
(* (sqlite3.OperationalError: disk error, "database is locked" after the   *)
(* busy timeout); store_new_codes does not catch it, so it ends the run.   *)
(*                                                                         *)
(* The scan of one source is modelled on its own, on characters: SpecHtml  *)
(* takes a parsed document through extract_text_from_html and              *)
(* find_codes_in_text, SpecText takes a text through find_codes_in_text    *)
(* with the three CODE_PATTERNS matched as Python's re matches them.       *)
(***************************************************************************)
EXTENDS Integers, Sequences, FiniteSets, TLC

\* ------------------------------------------------------------- bounds
MaxRuns == 2        \* invocations of main(), in any overlap
NumCodes == 2       \* distinct code tokens the pages may hold
NumSources == 2     \* configured sources
MaxTime == 2        \* readings of int(time.time())

Runs == 1..MaxRuns
Codes == 1..NumCodes
Urls == 1..NumSources
Times == 1..MaxTime

\* ------------------------------------------------------------- state
VARIABLES
    cfg,        \* the loaded configuration: sources, notify.webhook, notify.email.host
    db,         \* the database file: [exists, rows], rows = the committed rows of table codes
    lock,       \* the run holding SQLite's write lock, 0 when free
    txn,        \* txn[r]: rows run r has inserted and not yet committed
    pc,         \* pc[r]: position of run r in main()
    fetched,    \* fetched[r][u]: what fetch/extract/find gave for url u ("fail" or codes)
    found,      \* found[r]: result of scan_sources
    pairs,      \* pairs[r]: the sorted (code, url) pairs handed to store_new_codes
    idx,        \* idx[r]: position of the for loop of store_new_codes in pairs[r]
    now,        \* now[r]: int(time.time()) read by store_new_codes
    new,        \* new[r]: the list new of store_new_codes, then of main
    attempts,   \* attempts[r]: history of the INSERTs run r executed
    hookCalls,  \* hookCalls[r]: history of the requests.post calls of run r
    mailCalls,  \* mailCalls[r]: history of the SMTP sessions of run r
    prior,      \* prior[r]: history, the runs that had ended when run r began
    fetches,    \* fetches[r]: history of the fetch_url calls of run r (their urls)
    html,       \* one source of scan_sources: the fetched document, parsed
    stringClasses, \* whether the installed BeautifulSoup has the string classes of 4.9
    text,       \* the source's text handed to find_codes_in_text
    scanCodes,  \* what find_codes_in_text returned for it
    step        \* the position in the loop body of scan_sources for this source

\* the variables of the runs of main, and those of the scan of one source
runVars == <<cfg, db, lock, txn, pc, fetched, found, pairs, idx, now, new,
             attempts, hookCalls, mailCalls, prior, fetches>>

scanVars == <<html, stringClasses, text, scanCodes, step>>

vars == <<runVars, scanVars>>

Fail == <<0>>   \* the scan of a source raised (no code is 0)

\* ------------------------------------------------------------- helpers
Range(s) == {s[i] : i \in 1..Len(s)}

CodesOf(ps) == {ps[i][1] : i \in 1..Len(ps)}

RowCodes(rows) == {rows[i].code : i \in 1..Len(rows)}

RECURSIVE Perms(_)
Perms(S) ==
    IF S = {} THEN {<<>>}
    ELSE UNION {{<<x>> \o p : p \in Perms(S \ {x})} : x \in S}

\* tuple comparison of Python: first component, then second
PairLess(p, q) == p[1] < q[1] \/ (p[1] = q[1] /\ p[2] < q[2])

\* variant of SortedPairs that lists the pairs in descending order
RECURSIVE ReversedPairs(_)
ReversedPairs(S) ==
    IF S = {} THEN <<>>
    ELSE LET m == CHOOSE p \in S : \A q \in S \ {p} : PairLess(q, p)
         IN <<m>> \o ReversedPairs(S \ {m})

RECURSIVE SortedPairs(_)
SortedPairs(S) ==
    IF S = {} THEN <<>>
    ELSE LET m == CHOOSE p \in S : \A q \in S \ {p} : PairLess(p, q)
         IN <<m>> \o SortedPairs(S \ {m})

RECURSIVE SortedCodes(_)
SortedCodes(S) ==
    IF S = {} THEN <<>>
    ELSE LET m == CHOOSE c \in S : \A d \in S : c <= d
         IN <<m>> \o SortedCodes(S \ {m})

\* what find_codes_in_text can return for a page: a sorted list without repeats
ScanOutcomes == {Fail} \cup {SortedCodes(S) : S \in SUBSET Codes}

\* ------------------------------------------------------------- scanning
\* variant of scan_sources with the try around the whole loop: the first failing
\* source ends the scan
RECURSIVE scan_abort(_, _)
scan_abort(sources, f) ==
    IF sources = <<>> THEN <<>>
    ELSE LET url == Head(sources)
             codes == f[url]
         IN IF codes = Fail THEN <<>>
            ELSE [i \in 1..Len(codes) |-> <<codes[i], url>>]
                 \o scan_abort(Tail(sources), f)

\* scan_sources: the sources in configured order; a source whose fetch, extraction
\* or scan raised is caught inside the loop and adds nothing
RECURSIVE scan_sources(_, _)
scan_sources(sources, f) ==
    IF sources = <<>> THEN <<>>
    ELSE LET url == Head(sources)
             codes == f[url]
             mine == IF codes = Fail THEN <<>>
                     ELSE [i \in 1..Len(codes) |-> <<codes[i], url>>]
         IN mine \o scan_sources(Tail(sources), f)

\* variant of ByCodeStep without the "not in" test: the last source wins
ByCodeLast(m, p) ==
    {q \in m : q[1] # p[1]} \cup {p}

\* variant of fetch_calls that tries every source a second time
fetch_twice(sources) == sources \o sources

\* scan_sources: the fetch_url calls of the loop, one per configured source,
\* whatever each of them returns or raises
RECURSIVE fetch_calls(_)
fetch_calls(sources) ==
    IF sources = <<>> THEN <<>>
    ELSE <<Head(sources)>> \o fetch_calls(Tail(sources))

\* main: "if code not in by_code: by_code[code] = src"
ByCodeStep(m, p) ==
    IF \E q \in m : q[1] = p[1] THEN m ELSE m \cup {p}

RECURSIVE by_code(_, _)
by_code(m, fnd) ==
    IF fnd = <<>> THEN m ELSE by_code(ByCodeStep(m, Head(fnd)), Tail(fnd))

\* main: pairs = sorted([(c, by_code[c]) for c in by_code])
Aggregate(fnd) == SortedPairs(by_code({}, fnd))

\* ------------------------------------------------------------- the database
\* init_db: CREATE TABLE IF NOT EXISTS keeps the rows of an existing table
init_db(d) ==
    IF d.exists THEN d ELSE [exists |-> TRUE, rows |-> <<>>]

\* what the connection of a run reads: the committed rows and its own
Visible(d, t) == d.rows \o t

\* variant of UniqueViolation for a column declared without UNIQUE
NoUniqueConstraint(rows, code) == FALSE

\* code TEXT UNIQUE
UniqueViolation(rows, code) == code \in RowCodes(rows)

\* the exception c.execute("INSERT ...") raises in the absence of a malfunction
ExecInsert(rows, code) ==
    IF UniqueViolation(rows, code) THEN "IntegrityError" ELSE "none"

\* id INTEGER PRIMARY KEY: the next rowid
NewRow(rows, code, source, t) ==
    [id |-> Len(rows) + 1, code |-> code, source |-> source, discovered_at |-> t]

\* variant of CanWrite for a store that does not serialise its writers
NoWriteLock(l, r) == TRUE

\* SQLite lets one connection write at a time: the INSERT of a run waits (up to
\* the busy timeout) while another run's transaction holds the write lock
CanWrite(l, r) == l \in {0, r}

\* variant of RolledBack for a connection in autocommit mode: every executed
\* INSERT is durable at once
AutoCommitted(d, t) == [d EXCEPT !.rows = d.rows \o t]

\* the process ends with its transaction open (conn.commit() not reached, or
\* failed): the uncommitted rows are dropped
RolledBack(d, t) == d

\* variant of Committed for a store_new_codes that never commits
CommitLost(d, t) == d

\* conn.commit()
Committed(d, t) == [d EXCEPT !.rows = d.rows \o t]

\* variant of Caught with a bare "except Exception: pass"
CaughtAll(exc) == TRUE

\* variant of Caught without the except clause
CaughtNothing(exc) == FALSE

\* store_new_codes: "except sqlite3.IntegrityError: pass"
Caught(exc) == exc = "IntegrityError"

\* variant of NewAfter with the append after the try statement
NewAfterAnyway(lst, pair, exc) == Append(lst, pair)

\* store_new_codes: new.append((code, source)) follows the INSERT inside the try
NewAfter(lst, pair, exc) ==
    IF exc = "none" THEN Append(lst, pair) ELSE lst

\* ------------------------------------------------------------- notification
Listing(new_codes) == [i \in 1..Len(new_codes) |->
                          [code |-> new_codes[i][1], source |-> new_codes[i][2]]]

\* variant of notify_via_webhook that posts once per code
notify_per_code(webhook_url, new_codes) ==
    IF webhook_url = "" THEN <<>>
    ELSE [i \in 1..Len(new_codes) |->
             [header |-> "New SHIFT / Golden Key codes found:",
              lines |-> Listing(<<new_codes[i]>>)]]

\* notify_via_webhook: the POSTs it makes (their payloads)
notify_via_webhook(webhook_url, new_codes) ==
    IF webhook_url = "" \/ new_codes = <<>> THEN <<>>
    ELSE << [header |-> "New SHIFT / Golden Key codes found:",
             lines |-> Listing(new_codes)] >>

\* notify_via_email: the messages it composes and hands to an SMTP session
notify_via_email(host, new_codes) ==
    IF host = "" \/ new_codes = <<>> THEN <<>>
    ELSE << [subject |-> Len(new_codes),
             header |-> "New SHIFT / Golden Key codes discovered:",
             lines |-> Listing(new_codes)] >>

\* variant of ChannelErrorCaught without the try statements
ChannelErrorEscapes == FALSE

\* main: "except Exception as e: print(...)" around each channel
ChannelErrorCaught == TRUE

\* variant of OnNotifyError that deletes the run's rows so that a later run
\* finds the codes again
UndoOnNotifyError(d, new_codes) ==
    [d EXCEPT !.rows = SelectSeq(d.rows, LAMBDA row : row.code \notin CodesOf(new_codes))]

\* main: the except clauses only print; the rows committed for the run stay
OnNotifyError(d, new_codes) == d

\* ------------------------------------------------------------- initial state
\* no source is looked at on its own: the runs take their scan results whole
NoScan ==
    /\ html = <<>>
    /\ stringClasses = FALSE
    /\ text = <<>>
    /\ scanCodes = <<>>
    /\ step = "none"

Init ==
    /\ cfg \in [sources : Perms(Urls), webhook : {"", "hook"}, email_host : {"", "smtp"}]
    /\ db = [exists |-> FALSE, rows |-> <<>>]
    /\ lock = 0
    /\ txn = [r \in Runs |-> <<>>]
    /\ pc = [r \in Runs |-> "idle"]
    /\ fetched = [r \in Runs |-> [u \in Urls |-> Fail]]
    /\ found = [r \in Runs |-> <<>>]
    /\ pairs = [r \in Runs |-> <<>>]
    /\ idx = [r \in Runs |-> 1]
    /\ now = [r \in Runs |-> 1]
    /\ new = [r \in Runs |-> <<>>]
    /\ attempts = [r \in Runs |-> <<>>]
    /\ hookCalls = [r \in Runs |-> <<>>]
    /\ mailCalls = [r \in Runs |-> <<>>]
    /\ prior = [r \in Runs |-> {}]
    /\ fetches = [r \in Runs |-> <<>>]
    /\ NoScan

Ended(r) == pc[r] \in {"done", "crashed"}

\* the locals of main and of store_new_codes, as they are before the run sets them
NoFetch == [u \in Urls |-> Fail]

\* ------------------------------------------------------------- actions
\* main up to the call of store_new_codes: init_db, scan_sources, aggregation
Start(r) ==
    /\ pc[r] = "idle"
    /\ \E f \in [Urls -> ScanOutcomes] :
         /\ fetched' = [fetched EXCEPT ![r] = f]
         /\ found' = [found EXCEPT ![r] = scan_sources(cfg.sources, f)]
         /\ pairs' = [pairs EXCEPT ![r] = Aggregate(scan_sources(cfg.sources, f))]
    /\ db' = init_db(db)
    /\ prior' = [prior EXCEPT ![r] = {q \in Runs : Ended(q)}]
    /\ fetches' = [fetches EXCEPT ![r] = fetch_calls(cfg.sources)]
    /\ pc' = [pc EXCEPT ![r] = "store"]
    /\ UNCHANGED <<cfg, lock, txn, idx, now, new, attempts, hookCalls, mailCalls>>
    /\ UNCHANGED scanVars

\* store_new_codes, up to the loop: cursor, new = [], now = int(time.time())
StoreBegin(r) ==
    /\ pc[r] = "store"
    /\ \E t \in Times : now' = [now EXCEPT ![r] = t]
    /\ idx' = [idx EXCEPT ![r] = 1]
    /\ new' = [new EXCEPT ![r] = <<>>]
    /\ pc' = [pc EXCEPT ![r] = "insert"]
    /\ UNCHANGED <<cfg, db, lock, txn, fetched, found, pairs, attempts,
                   hookCalls, mailCalls, prior, fetches>>
    /\ UNCHANGED scanVars

\* an exception leaves main: the process ends, its open transaction is rolled
\* back, its lock is released and its locals are gone
Crash(r) ==
    /\ pc' = [pc EXCEPT ![r] = "crashed"]
    /\ txn' = [txn EXCEPT ![r] = <<>>]
    /\ lock' = IF lock = r THEN 0 ELSE lock
    /\ new' = [new EXCEPT ![r] = <<>>]
    /\ fetched' = [fetched EXCEPT ![r] = NoFetch]
    /\ found' = [found EXCEPT ![r] = <<>>]
    /\ pairs' = [pairs EXCEPT ![r] = <<>>]
    /\ idx' = [idx EXCEPT ![r] = 1]
    /\ now' = [now EXCEPT ![r] = 1]

\* main returns: the process ends; new is kept as the record of the run's batch
Exit(r) ==
    /\ pc' = [pc EXCEPT ![r] = "done"]
    /\ fetched' = [fetched EXCEPT ![r] = NoFetch]
    /\ found' = [found EXCEPT ![r] = <<>>]
    /\ pairs' = [pairs EXCEPT ![r] = <<>>]
    /\ idx' = [idx EXCEPT ![r] = 1]
    /\ now' = [now EXCEPT ![r] = 1]

\* one pass of the loop of store_new_codes, c.execute having raised exc
\* ("none": it returned)
StoreStep(r, exc) ==
    LET pair == pairs[r][idx[r]]
        rows == Visible(db, txn[r])
        raised == exc # "none" /\ ~Caught(exc)
        t2 == IF exc = "none"
              THEN Append(txn[r], NewRow(rows, pair[1], pair[2], now[r]))
              ELSE txn[r]
    IN /\ attempts' = [attempts EXCEPT ![r] = Append(@,
                          [code |-> pair[1], exc |-> exc, raised |-> raised,
                           present |-> pair[1] \in RowCodes(rows),
                           grew |-> Len(t2) - Len(txn[r])])]
       /\ IF raised
          THEN Crash(r)
          ELSE /\ txn' = [txn EXCEPT ![r] = t2]
               /\ lock' = r
               /\ new' = [new EXCEPT ![r] = NewAfter(@, pair, exc)]
               /\ idx' = [idx EXCEPT ![r] = @ + 1]
               /\ UNCHANGED <<pc, fetched, found, pairs, now>>
       /\ db' = IF raised THEN RolledBack(db, txn[r]) ELSE db
       /\ UNCHANGED <<cfg, hookCalls, mailCalls, prior, fetches>>
       /\ UNCHANGED scanVars

\* the INSERT is executed: it succeeds or violates the UNIQUE constraint
Insert(r) ==
    /\ pc[r] = "insert"
    /\ idx[r] <= Len(pairs[r])
    /\ CanWrite(lock, r)
    /\ StoreStep(r, ExecInsert(Visible(db, txn[r]), pairs[r][idx[r]][1]))

\* the INSERT meets a storage malfunction (disk error, lock wait timed out)
InsertFault(r) ==
    /\ pc[r] = "insert"
    /\ idx[r] <= Len(pairs[r])
    /\ StoreStep(r, "OperationalError")

\* conn.commit() and the return of new to main
Commit(r) ==
    /\ pc[r] = "insert"
    /\ idx[r] > Len(pairs[r])
    /\ db' = Committed(db, txn[r])
    /\ txn' = [txn EXCEPT ![r] = <<>>]
    /\ lock' = IF lock = r THEN 0 ELSE lock
    /\ pc' = [pc EXCEPT ![r] = "notify"]
    /\ UNCHANGED <<cfg, fetched, found, pairs, idx, now, new, attempts,
                   hookCalls, mailCalls, prior, fetches>>
    /\ UNCHANGED scanVars

\* conn.commit() meets a storage malfunction: nothing of the run is committed
CommitFault(r) ==
    /\ pc[r] = "insert"
    /\ idx[r] > Len(pairs[r])
    /\ Crash(r)
    /\ db' = RolledBack(db, txn[r])
    /\ UNCHANGED <<cfg, attempts, hookCalls, mailCalls, prior, fetches>>
    /\ UNCHANGED scanVars

\* main: "if new:" is false, "No new codes found."
NoNewCodes(r) ==
    /\ pc[r] = "notify"
    /\ new[r] = <<>>
    /\ Exit(r)
    /\ UNCHANGED <<cfg, db, lock, txn, new, attempts, hookCalls, mailCalls, prior, fetches>>
    /\ UNCHANGED scanVars

\* main: "if new:" is true, the webhook channel; the delivery succeeds or raises
NotifyWebhook(r) ==
    /\ pc[r] = "notify"
    /\ new[r] # <<>>
    /\ LET posts == IF cfg.webhook # "" THEN notify_via_webhook(cfg.webhook, new[r])
                    ELSE <<>>
       IN \E ok \in BOOLEAN :
            /\ (posts = <<>>) => ok
            /\ hookCalls' = [hookCalls EXCEPT ![r] =
                   @ \o [i \in 1..Len(posts) |-> [payload |-> posts[i], ok |-> ok]]]
            /\ IF ok \/ ChannelErrorCaught
               THEN /\ pc' = [pc EXCEPT ![r] = "email"]
                    /\ UNCHANGED <<lock, txn, fetched, found, pairs, idx, now, new>>
               ELSE Crash(r)
            /\ db' = IF ok THEN db ELSE OnNotifyError(db, new[r])
    /\ UNCHANGED <<cfg, attempts, mailCalls, prior, fetches>>
    /\ UNCHANGED scanVars

\* main: the email channel; the delivery succeeds or raises; then main returns
NotifyEmail(r) ==
    /\ pc[r] = "email"
    /\ LET msgs == IF cfg.email_host # "" THEN notify_via_email(cfg.email_host, new[r])
                   ELSE <<>>
       IN \E ok \in BOOLEAN :
            /\ (msgs = <<>>) => ok
            /\ mailCalls' = [mailCalls EXCEPT ![r] =
                   @ \o [i \in 1..Len(msgs) |-> [payload |-> msgs[i], ok |-> ok]]]
            /\ IF ok \/ ChannelErrorCaught
               THEN Exit(r) /\ UNCHANGED <<lock, txn, new>>
               ELSE Crash(r)
            /\ db' = IF ok THEN db ELSE OnNotifyError(db, new[r])
    /\ UNCHANGED <<cfg, attempts, hookCalls, prior, fetches>>
    /\ UNCHANGED scanVars

Next ==
    \E r \in Runs :
        \/ Start(r)
        \/ StoreBegin(r)
        \/ Insert(r)
        \/ InsertFault(r)
        \/ Commit(r)
        \/ CommitFault(r)
        \/ NoNewCodes(r)
        \/ NotifyWebhook(r)
        \/ NotifyEmail(r)

Spec == Init /\ [][Next]_vars

\* the steps of run r once main has been invoked
RunNext(r) ==
    \/ StoreBegin(r)
    \/ Insert(r)
    \/ InsertFault(r)
    \/ Commit(r)
    \/ CommitFault(r)
    \/ NoNewCodes(r)
    \/ NotifyWebhook(r)
    \/ NotifyEmail(r)

\* an invoked process keeps running: its fetches, its wait for the write lock
\* and its deliveries all return or fail within their timeouts
SpecLive == Spec /\ \A r \in Runs : WF_vars(RunNext(r))

\* ------------------------------------------------------------- type invariant
TypeOK ==
    /\ lock \in 0..MaxRuns
    /\ \A r \in Runs :
         /\ pc[r] \in {"idle", "store", "insert", "notify", "email", "done", "crashed"}
         /\ idx[r] \in 1..(Len(pairs[r]) + 1)
         /\ now[r] \in Times
         /\ CodesOf(new[r]) \subseteq Codes

\* ------------------------------------------------------------- properties
\* store_new_codes has returned new to main (and main has not crashed)
Returned(r) == pc[r] \in {"notify", "email", "done"}

\* the new-code batch of run r: what store_new_codes returned
Batch(r) == IF Returned(r) THEN new[r] ELSE <<>>

\* the INSERTs run r executed for code c
Att(r, c) == {a \in Range(attempts[r]) : a.code = c}

AttCodes(r) == {a.code : a \in Range(attempts[r])}

\* the deliveries, over all runs, whose listing names code c
Listed(calls, c) ==
    {<<r, i>> \in Runs \X (1..NumCodes) :
        /\ i <= Len(calls[r])
        /\ \E k \in 1..Len(calls[r][i].payload.lines) :
              calls[r][i].payload.lines[k].code = c}

\* neither run had ended when the other began
Overlap(r1, r2) == r1 # r2 /\ r1 \notin prior[r2] /\ r2 \notin prior[r1]

\* C1: over all runs against the one store, in any overlap, every code is in the
\* new-code batch of at most one run, and is listed by at most one webhook call
\* and by at most one email.
C1_BatchOnce ==
    \A c \in Codes :
        /\ Cardinality({r \in Runs : c \in CodesOf(Batch(r))}) <= 1
        /\ Cardinality(Listed(hookCalls, c)) <= 1
        /\ Cardinality(Listed(mailCalls, c)) <= 1

\* C1 witness: two runs have ended, both found code c, the first has it in its
\* batch and its webhook call, the second met the duplicate and has not.
C1_Witness ==
    \E r1, r2 \in Runs, c \in Codes :
        /\ r1 # r2 /\ pc[r1] = "done" /\ pc[r2] = "done"
        /\ c \in CodesOf(new[r1]) /\ c \notin CodesOf(new[r2])
        /\ \E a \in Att(r2, c) : a.exc = "IntegrityError"
        /\ Listed(hookCalls, c) = {<<r1, 1>>}

\* C2: the committed rows never hold two rows with the same code, and every
\* step (init_db and store_new_codes of any run included) leaves each committed
\* row in place with its code, source and discovered_at.
C2_UniqueImmutable ==
    /\ [](\A i, j \in 1..Len(db.rows) : db.rows[i].code = db.rows[j].code => i = j)
    /\ [][\A i \in 1..Len(db.rows) :
             i <= Len(db'.rows) /\ db'.rows[i] = db.rows[i]]_vars

\* C2 witness: a row is committed, and a later run has opened the database with
\* init_db, has tried to insert the row's code again and has returned.
C2_Witness ==
    \E r \in Runs, i \in 1..Len(db.rows) :
        /\ prior[r] # {} /\ pc[r] = "done"
        /\ \E a \in Att(r, db.rows[i].code) : a.exc = "IntegrityError"
        /\ \E q \in Runs : q # r /\ db.rows[i].code \in CodesOf(new[q])

\* C3: for a code absent from the store, when the runs that tried to insert it
\* met no storage malfunction, exactly one of them got Inserted (and appended the
\* code to its new list) and every other one got the duplicate-key outcome; among
\* the runs that did not crash at most one ever has the code as Inserted.
C3_OneInserted ==
    \A c \in Codes :
        LET tried == {r \in Runs : Att(r, c) # {}}
            ins == {r \in tried : \E a \in Att(r, c) : a.exc = "none"}
        IN /\ Cardinality({r \in ins : pc[r] # "crashed"}) <= 1
           /\ (tried # {} /\ \A r \in tried : pc[r] # "crashed") =>
                 /\ Cardinality(ins) = 1
                 /\ \A r \in ins : c \in CodesOf(new[r])
                 /\ \A r \in tried \ ins :
                       /\ c \notin CodesOf(new[r])
                       /\ \A a \in Att(r, c) : a.exc = "IntegrityError" /\ ~a.raised

\* C3 witness: two overlapping runs both tried the same code; one inserted it,
\* the other met the duplicate.
C3_Witness ==
    \E r1, r2 \in Runs, c \in Codes :
        /\ Overlap(r1, r2)
        /\ pc[r1] # "crashed" /\ pc[r2] # "crashed"
        /\ \E a \in Att(r1, c) : a.exc = "none"
        /\ \E a \in Att(r2, c) : a.exc = "IntegrityError"

\* C4: when a run that ended before another began inserted code c (absent until
\* then), the later run's INSERT of c, unless it meets a storage malfunction,
\* violates the UNIQUE constraint, the exception does not leave store_new_codes,
\* and the rows grow by 1 over the two attempts.
C4_SecondAlreadyExists ==
    \A r1, r2 \in Runs, c \in Codes :
        (r1 \in prior[r2] /\ pc[r1] = "done") =>
            \A a \in Att(r1, c), b \in Att(r2, c) :
                (a.exc = "none" /\ ~a.present /\ b.exc # "OperationalError") =>
                    /\ b.exc = "IntegrityError"
                    /\ ~b.raised
                    /\ a.grew + b.grew = 1

\* C4 witness: the two attempts have happened, in sequence, and the second run
\* went on to return.
C4_Witness ==
    \E r1, r2 \in Runs, c \in Codes :
        /\ r1 \in prior[r2] /\ pc[r1] = "done" /\ pc[r2] = "done"
        /\ \E a \in Att(r1, c) : a.exc = "none" /\ ~a.present
        /\ \E b \in Att(r2, c) : b.exc = "IntegrityError"
        /\ Len(db.rows) = 1

\* C5: when only two runs have happened, the second begun after the first had
\* returned, both having scanned the same non-empty set of codes, the first
\* run's batch is non-empty and the second run's batch is empty.
C5_SecondRunEmpty ==
    \A r1, r2 \in Runs :
        ( /\ r1 \in prior[r2] /\ pc[r1] = "done" /\ Returned(r2)
          /\ \A q \in Runs \ {r1, r2} : pc[q] = "idle"
          /\ AttCodes(r1) # {} /\ AttCodes(r1) = AttCodes(r2) )
        => (new[r1] # <<>> /\ new[r2] = <<>>)

\* C5 witness: such two runs, the second at its "No new codes found".
C5_Witness ==
    \E r1, r2 \in Runs :
        /\ r1 \in prior[r2] /\ pc[r1] = "done" /\ pc[r2] = "done"
        /\ AttCodes(r1) = Codes /\ AttCodes(r2) = Codes
        /\ Len(new[r1]) = NumCodes /\ new[r2] = <<>>

\* the locals of main are alive: the scan is done and main has not ended
Scanned(r) == pc[r] \in {"store", "insert", "notify", "email"}

\* store_new_codes has returned and main has not ended
InNotify(r) == pc[r] \in {"notify", "email"}

\* the scan of url u succeeded in run r
Succeeded(r, u) == fetched[r][u] # Fail

\* the first url, in configured order, whose page held code c in run r
FirstSource(r, c) ==
    LET hits == {i \in 1..Len(cfg.sources) :
                    /\ Succeeded(r, cfg.sources[i])
                    /\ c \in Range(fetched[r][cfg.sources[i]])}
    IN cfg.sources[CHOOSE i \in hits : \A j \in hits : i <= j]

\* the listing of a delivery names exactly the pairs of the batch, in its order
FullListing(payload, batch) ==
    /\ Len(payload.lines) = Len(batch)
    /\ \A k \in 1..Len(batch) :
          /\ payload.lines[k].code = batch[k][1]
          /\ payload.lines[k].source = batch[k][2]

\* C6: in a run, every pair of the scan result comes from a source whose scan
\* succeeded (a failed source adds none), every code of every succeeded source
\* is in the scan result whatever the position of a failed source, and once
\* store_new_codes has returned each such code that was not in the store at its
\* INSERT is in the run's new-code batch.
C6_FailureIsolated ==
    \A r \in Runs :
        /\ Scanned(r) =>
             /\ \A p \in Range(found[r]) :
                   Succeeded(r, p[2]) /\ p[1] \in Range(fetched[r][p[2]])
             /\ \A u \in Urls : Succeeded(r, u) =>
                   \A c \in Range(fetched[r][u]) : <<c, u>> \in Range(found[r])
        /\ InNotify(r) =>
             \A u \in Urls : Succeeded(r, u) =>
                 \A c \in Range(fetched[r][u]) :
                     /\ Att(r, c) # {}
                     /\ \A a \in Att(r, c) : ~a.present => c \in CodesOf(new[r])

\* C6 witness: the source configured first failed, a later one succeeded with a
\* code that was not in the store, and the run's batch holds that code.
C6_Witness ==
    \E r \in Runs, c \in Codes :
        /\ InNotify(r)
        /\ ~Succeeded(r, cfg.sources[1])
        /\ Succeeded(r, cfg.sources[2]) /\ c \in Range(fetched[r][cfg.sources[2]])
        /\ c \in CodesOf(new[r])

\* C7: the pairs handed to store_new_codes give every code the url of its first
\* occurrence in configured order, and the row a run committed for a code of its
\* batch has that url as its source.
C7_FirstSourceWins ==
    \A r \in Runs :
        /\ Scanned(r) =>
             /\ CodesOf(pairs[r]) = CodesOf(found[r])
             /\ \A p \in Range(pairs[r]) : p[2] = FirstSource(r, p[1])
        /\ InNotify(r) =>
             \A c \in CodesOf(new[r]) :
                 /\ \E i \in 1..Len(db.rows) : db.rows[i].code = c
                 /\ \A i \in 1..Len(db.rows) :
                       db.rows[i].code = c => db.rows[i].source = FirstSource(r, c)

\* C7 witness: a code found in both sources was inserted by the run, and its
\* committed row names the source configured first.
C7_Witness ==
    \E r \in Runs, c \in Codes :
        /\ InNotify(r)
        /\ \A u \in Urls : Succeeded(r, u) /\ c \in Range(fetched[r][u])
        /\ c \in CodesOf(new[r])
        /\ \E i \in 1..Len(db.rows) :
              db.rows[i].code = c /\ db.rows[i].source = cfg.sources[1]

\* C8: with a webhook configured, a run that is past its webhook step with a
\* batch of n >= 1 pairs has made exactly one webhook call, whose listing is the
\* whole batch; a run whose batch is empty has made none.
C8_OneWebhookCall ==
    \A r \in Runs :
        /\ (cfg.webhook # "" /\ pc[r] \in {"email", "done"} /\ new[r] # <<>>) =>
              /\ Len(hookCalls[r]) = 1
              /\ FullListing(hookCalls[r][1].payload, new[r])
        /\ Batch(r) = <<>> => hookCalls[r] = <<>>

\* C8 witness: a run with a batch of two pairs has made its single webhook call.
C8_Witness ==
    \E r \in Runs :
        /\ pc[r] = "done" /\ Len(new[r]) = 2
        /\ Len(hookCalls[r]) = 1 /\ Len(hookCalls[r][1].payload.lines) = 2

\* C9: with both channels configured, a run that has ended with a non-empty
\* batch made exactly one webhook call and exactly one email, each listing the
\* whole batch, whatever the outcome of either; a failed webhook call leaves the
\* run going on to the email step.
C9_ChannelsIndependent ==
    \A r \in Runs :
        /\ (cfg.webhook # "" /\ cfg.email_host # "" /\ pc[r] = "done" /\ new[r] # <<>>) =>
              /\ Len(hookCalls[r]) = 1 /\ FullListing(hookCalls[r][1].payload, new[r])
              /\ Len(mailCalls[r]) = 1 /\ FullListing(mailCalls[r][1].payload, new[r])
              /\ mailCalls[r][1].payload.subject = Len(new[r])
        /\ (\E i \in 1..Len(hookCalls[r]) : ~hookCalls[r][i].ok) =>
              /\ pc[r] \in {"email", "done"}
              /\ (pc[r] = "done" /\ cfg.email_host # "") => Len(mailCalls[r]) = 1

\* C9 witness: the webhook call of a run failed and its email was attempted.
C9_Witness ==
    \E r \in Runs :
        /\ pc[r] = "done"
        /\ Len(hookCalls[r]) = 1 /\ ~hookCalls[r][1].ok
        /\ Len(mailCalls[r]) = 1 /\ FullListing(mailCalls[r][1].payload, new[r])

\* every delivery run r attempted has failed
AllNotifyFailed(r) ==
    /\ \A i \in 1..Len(hookCalls[r]) : ~hookCalls[r][i].ok
    /\ \A i \in 1..Len(mailCalls[r]) : ~mailCalls[r][i].ok

\* C10: the codes of the batch of a run whose deliveries have all failed stay
\* committed, and no other run has them in its new list or in a delivery.
C10_NoRetryAfterNotifyFailure ==
    \A r \in Runs :
        (InNotify(r) \/ pc[r] = "done") /\ AllNotifyFailed(r) =>
            \A c \in CodesOf(new[r]) :
                /\ c \in RowCodes(db.rows)
                /\ \A q \in Runs \ {r} :
                      /\ c \notin CodesOf(new[q])
                      /\ \A i \in 1..Len(hookCalls[q]) :
                            \A k \in 1..Len(hookCalls[q][i].payload.lines) :
                                hookCalls[q][i].payload.lines[k].code # c
                      /\ \A i \in 1..Len(mailCalls[q]) :
                            \A k \in 1..Len(mailCalls[q][i].payload.lines) :
                                mailCalls[q][i].payload.lines[k].code # c

\* C10 witness: both deliveries of a run failed; a run begun after it found the
\* same code again, met the duplicate and ended with an empty batch.
C10_Witness ==
    \E r, q \in Runs, c \in Codes :
        /\ r \in prior[q] /\ pc[r] = "done" /\ pc[q] = "done"
        /\ c \in CodesOf(new[r])
        /\ Len(hookCalls[r]) = 1 /\ ~hookCalls[r][1].ok
        /\ Len(mailCalls[r]) = 1 /\ ~mailCalls[r][1].ok
        /\ \E a \in Att(q, c) : a.exc = "IntegrityError"
        /\ new[q] = <<>> /\ c \in RowCodes(db.rows)

\* C11: a run in which an INSERT or the commit of store_new_codes met a storage
\* malfunction has made no webhook call and sent no email.
C11_NoNotifyAfterStoreError ==
    \A r \in Runs :
        (pc[r] = "crashed" \/ \E a \in Range(attempts[r]) : a.exc = "OperationalError")
            => (hookCalls[r] = <<>> /\ mailCalls[r] = <<>>)

\* C11 witness: with both channels configured, a run inserted a code, then met
\* the malfunction, and has ended without a delivery.
C11_Witness ==
    \E r \in Runs :
        /\ cfg.webhook # "" /\ cfg.email_host # ""
        /\ pc[r] = "crashed"
        /\ Len(attempts[r]) = 2
        /\ attempts[r][1].exc = "none" /\ attempts[r][2].exc = "OperationalError"
        /\ hookCalls[r] = <<>> /\ mailCalls[r] = <<>>

\* C17: the pairs handed to store_new_codes hold every code of the scan result
\* once, strictly ascending by code; the INSERTs follow that order and the batch
\* is ascending too; two runs with the same per-source scan results have the
\* same pairs.
C17_PairsSorted ==
    \A r \in Runs :
        Scanned(r) =>
            /\ CodesOf(pairs[r]) = CodesOf(found[r])
            /\ \A i, j \in 1..Len(pairs[r]) : i < j => pairs[r][i][1] < pairs[r][j][1]
            /\ \A k \in 1..Len(attempts[r]) : attempts[r][k].code = pairs[r][k][1]
            /\ \A i, j \in 1..Len(new[r]) : i < j => new[r][i][1] < new[r][j][1]
            /\ \A q \in Runs :
                  (Scanned(q) /\ fetched[q] = fetched[r]) => pairs[q] = pairs[r]

\* C17 witness: a run whose scan found the larger code first (in the source
\* configured first) and the smaller one second has inserted both, smaller first.
C17_Witness ==
    \E r \in Runs :
        /\ InNotify(r)
        /\ Len(found[r]) = 2 /\ found[r][1][1] > found[r][2][1]
        /\ Len(new[r]) = 2 /\ new[r][1][1] < new[r][2][1]

\* C19: every code listed in a webhook call or an email is the code of a
\* committed row, whatever the other runs are doing.
C19_NotifyAfterCommit ==
    \A r \in Runs :
        /\ \A i \in 1..Len(hookCalls[r]) :
              \A k \in 1..Len(hookCalls[r][i].payload.lines) :
                  hookCalls[r][i].payload.lines[k].code \in RowCodes(db.rows)
        /\ \A i \in 1..Len(mailCalls[r]) :
              \A k \in 1..Len(mailCalls[r][i].payload.lines) :
                  mailCalls[r][i].payload.lines[k].code \in RowCodes(db.rows)

\* C19 witness: a run has made its webhook call while another run is inside its
\* transaction, with an uncommitted row.
C19_Witness ==
    \E r, q \in Runs :
        /\ r # q /\ Len(hookCalls[r]) = 1
        /\ pc[q] = "insert" /\ lock = q /\ txn[q] # <<>>

\* C20: only a commit changes the committed rows, and the step in which a run
\* ends on a storage malfunction leaves them as they are; when a run that ended
\* so is followed by a run that returns from store_new_codes (no third run having
\* started), every code the later run found is in its batch.
C20_AllOrNothing ==
    /\ [][ /\ (db'.rows # db.rows) =>
                \E r \in Runs : pc[r] = "insert" /\ pc'[r] = "notify"
           /\ \A r \in Runs : (pc[r] # "crashed" /\ pc'[r] = "crashed") =>
                db'.rows = db.rows ]_vars
    /\ [](\A r, q \in Runs :
            ( /\ pc[r] = "crashed" /\ r \in prior[q] /\ Returned(q)
              /\ \A o \in Runs \ {r, q} : pc[o] = "idle" )
            => AttCodes(q) \subseteq CodesOf(new[q]))

\* C20 witness: a run inserted a code and then met the malfunction; the next run
\* found the code again and has it in its batch.
C20_Witness ==
    \E r, q \in Runs, c \in Codes :
        /\ pc[r] = "crashed" /\ r \in prior[q] /\ Returned(q)
        /\ Len(attempts[r]) = 2
        /\ attempts[r][1].code = c /\ attempts[r][1].exc = "none"
        /\ attempts[r][2].exc = "OperationalError"
        /\ c \in CodesOf(new[q])

\* C18: every invoked run ends, whatever sources and channels fail; a run that
\* has ended takes no further step; and a run calls fetch_url at most once per
\* configured source, executes at most one INSERT per code and attempts each
\* channel at most once.
C18_RunTerminates ==
    /\ []<>(\A r \in Runs : pc[r] = "idle" \/ Ended(r))
    /\ [][\A r \in Runs : Ended(r) => pc'[r] = pc[r]]_vars
    /\ [](\A r \in Runs :
            /\ \A u \in Urls :
                  Cardinality({i \in 1..Len(fetches[r]) : fetches[r][i] = u}) <= 1
            /\ \A c \in Codes : Cardinality({k \in 1..Len(attempts[r]) :
                                                attempts[r][k].code = c}) <= 1
            /\ Len(hookCalls[r]) <= 1
            /\ Len(mailCalls[r]) <= 1)

\* C18 witness: a run whose two channels both failed has ended with one fetch per
\* source and one attempt per channel, and a run that found nothing new (for
\* example with every source failing) has ended as well.
C18_Witness ==
    \E r, q \in Runs :
        /\ pc[r] = "done" /\ Len(fetches[r]) = NumSources
        /\ Len(hookCalls[r]) = 1 /\ ~hookCalls[r][1].ok
        /\ Len(mailCalls[r]) = 1 /\ ~mailCalls[r][1].ok
        /\ pc[q] = "done" /\ new[q] = <<>> /\ Len(fetches[q]) = NumSources

\* ------------------------------------------------------------- text: characters
\* A text is a sequence of characters; a character is a one-character string,
\* and the two dashes are written as the source writes them.
EnDash == "\\u2013"
EmDash == "\\u2014"

Digits == <<"0", "1", "2", "3", "4", "5", "6", "7", "8", "9">>

UpperCase == <<"A", "B", "C", "D", "E", "F", "G", "H", "I", "J", "K", "L", "M",
               "N", "O", "P", "Q", "R", "S", "T", "U", "V", "W", "X", "Y", "Z">>

LowerCase == <<"a", "b", "c", "d", "e", "f", "g", "h", "i", "j", "k", "l", "m",
               "n", "o", "p", "q", "r", "s", "t", "u", "v", "w", "x", "y", "z">>

\* the characters of the texts, in code point order
CodePoints ==
    <<"\n", " ", ",", "-", ".">> \o Digits \o <<":", ";">> \o UpperCase
        \o <<"_">> \o LowerCase \o <<EnDash, EmDash>>

Chars == Range(CodePoints)

Ord == [c \in Chars |-> CHOOSE i \in 1..Len(CodePoints) : CodePoints[i] = c]

\* str.upper on one character
upper == [c \in Chars |->
            IF \E i \in 1..Len(LowerCase) : LowerCase[i] = c
            THEN UpperCase[CHOOSE i \in 1..Len(LowerCase) : LowerCase[i] = c]
            ELSE c]

\* str.lower on one character
lower == [c \in Chars |->
            IF \E i \in 1..Len(UpperCase) : UpperCase[i] = c
            THEN LowerCase[CHOOSE i \in 1..Len(UpperCase) : UpperCase[i] = c]
            ELSE c]

\* the character classes of CODE_PATTERNS and of find_codes_in_text
Alnum == Range(UpperCase) \cup Range(Digits)                     \* [A-Z0-9]
Word == Alnum \cup Range(LowerCase) \cup {"_"}                   \* \w, as \b reads it
Space == {" ", "\n"}                                             \* \s
Sep == {"-"} \cup Space                                          \* [-\s]
Punct == {"-", ".", ",", ";", ":"}                               \* strip('-.,;:')

\* the repetition counts of CODE_PATTERNS and the length test of find_codes_in_text
GroupMin == 4
GroupMax == 6
MaxGroups == 4
LongMin == 10
LongMax == 20
MinLen == 8

\* variant of normalize without upper()
KeepCase(txt) ==
    [i \in 1..Len(txt) |-> IF txt[i] \in {EnDash, EmDash} THEN "-" ELSE txt[i]]

\* norm = text.upper().replace('–', '-').replace('—', '-')
normalize(txt) ==
    [i \in 1..Len(txt) |->
        IF upper[txt[i]] \in {EnDash, EmDash} THEN "-" ELSE upper[txt[i]]]

\* ------------------------------------------------------------- text: CODE_PATTERNS
\* \b at position p of s, between s[p-1] and s[p]
Boundary(s, p) ==
    (p > 1 /\ s[p - 1] \in Word) # (p <= Len(s) /\ s[p] \in Word)

\* [A-Z0-9]{n} at position p
IsRun(s, p, n) ==
    /\ p + n - 1 <= Len(s)
    /\ \A k \in p..(p + n - 1) : s[k] \in Alnum

\* The matchers give the position after the match the regex engine finds first
\* (greedy, backtracking), or 0 when there is no match at this start.
RECURSIVE TryGroup(_, _, _, _)
RECURSIVE MoreGroups(_, _, _)

\* (?:[-\s][A-Z0-9]{4,6}){1,4}\b at position p after k repetitions
MoreGroups(s, p, k) ==
    LET longer == IF k < MaxGroups /\ p <= Len(s) /\ s[p] \in Sep
                  THEN TryGroup(s, p + 1, k + 1, GroupMax)
                  ELSE 0
    IN  IF longer # 0 THEN longer
        ELSE IF k >= 1 /\ Boundary(s, p) THEN p ELSE 0

\* [A-Z0-9]{4,6} at position p, first with n characters and then with fewer,
\* followed by the rest of the pattern
TryGroup(s, p, k, n) ==
    IF n < GroupMin THEN 0
    ELSE LET rest == IF IsRun(s, p, n) THEN MoreGroups(s, p + n, k) ELSE 0
         IN  IF rest # 0 THEN rest ELSE TryGroup(s, p, k, n - 1)

\* \b[A-Z0-9]{4,6}(?:[-\s][A-Z0-9]{4,6}){1,4}\b
GroupPattern(s, p) ==
    IF Boundary(s, p) THEN TryGroup(s, p, 0, GroupMax) ELSE 0

Shift == <<"S", "H", "I", "F", "T">>

\* \bSHIFT[-\s]?[A-Z0-9]{4,6}(?:[-\s][A-Z0-9]{4,6}){1,4}\b  (IGNORECASE, on the
\* upper-cased text)
ShiftPattern(s, p) ==
    LET q == p + Len(Shift)
    IN  IF Boundary(s, p) /\ q - 1 <= Len(s) /\ SubSeq(s, p, q - 1) = Shift
        THEN LET withSep == IF q <= Len(s) /\ s[q] \in Sep
                            THEN TryGroup(s, q + 1, 0, GroupMax)
                            ELSE 0
             IN  IF withSep # 0 THEN withSep ELSE TryGroup(s, q, 0, GroupMax)
        ELSE 0

\* [A-Z0-9]{10,20}\b at position p, first with n characters and then with fewer
RECURSIVE TryLong(_, _, _)
TryLong(s, p, n) ==
    IF n < LongMin THEN 0
    ELSE IF IsRun(s, p, n) /\ Boundary(s, p + n) THEN p + n
    ELSE TryLong(s, p, n - 1)

\* \b[A-Z0-9]{10,20}\b
LongPattern(s, p) ==
    IF Boundary(s, p) THEN TryLong(s, p, LongMax) ELSE 0

\* CODE_PATTERNS, in the order of the list
NumPatterns == 3

MatchAt(pat, s, p) ==
    CASE pat = 1 -> GroupPattern(s, p)
      [] pat = 2 -> ShiftPattern(s, p)
      [] pat = 3 -> LongPattern(s, p)

\* pat.findall(s): the matches from left to right, each search starting where
\* the previous match ended
RECURSIVE findall(_, _, _)
findall(pat, s, p) ==
    IF p > Len(s) THEN <<>>
    ELSE LET e == MatchAt(pat, s, p)
         IN  IF e = 0 THEN findall(pat, s, p + 1)
             ELSE <<SubSeq(s, p, e - 1)>> \o findall(pat, s, e)

\* ------------------------------------------------------------- text: find_codes_in_text
\* str.strip(chars): the characters of S removed at both ends
RECURSIVE StripChars(_, _)
StripChars(m, S) ==
    IF m = <<>> THEN m
    ELSE IF Head(m) \in S THEN StripChars(Tail(m), S)
    ELSE IF m[Len(m)] \in S THEN StripChars(SubSeq(m, 1, Len(m) - 1), S)
    ELSE m

\* variant of unify that leaves the whitespace of a match in place
keep_spacing(m) == m

\* re.sub(r'[\s]+', '-', m): every run of whitespace becomes one hyphen
RECURSIVE unify(_)
unify(m) ==
    IF m = <<>> THEN <<>>
    ELSE IF Head(m) \in Space
         THEN IF Len(m) > 1 /\ m[2] \in Space THEN unify(Tail(m))
              ELSE <<"-">> \o unify(Tail(m))
         ELSE <<Head(m)>> \o unify(Tail(m))

\* variant of matches that runs one pattern only
first_pattern(pat, norm) == findall(pat, norm, 1)

\* the matches of the patterns from pat on, pattern by pattern
RECURSIVE matches(_, _)
matches(pat, norm) ==
    IF pat > NumPatterns THEN <<>>
    ELSE findall(pat, norm, 1) \o matches(pat + 1, norm)

\* the inner loop body for the matches ms: the tokens handed to found.add, in order
RECURSIVE added(_)
added(ms) ==
    IF ms = <<>> THEN <<>>
    ELSE LET token == unify(StripChars(Head(ms), Space))
         IN  (IF Len(token) >= MinLen THEN <<StripChars(token, Punct)>> ELSE <<>>)
                 \o added(Tail(ms))

\* str comparison of Python: by code point, a proper prefix first
LexLess(a, b) ==
    \E i \in 1..Len(b) :
        /\ i <= Len(a) + 1
        /\ \A k \in 1..(i - 1) : a[k] = b[k]
        /\ (i = Len(a) + 1 \/ Ord[a[i]] < Ord[b[i]])

\* sorted() of a set of tokens
RECURSIVE sorted(_)
sorted(S) ==
    IF S = {} THEN <<>>
    ELSE LET m == CHOOSE t \in S : \A u \in S : ~LexLess(u, t)
         IN  <<m>> \o sorted(S \ {m})

\* variant of sorted_found that keeps the tokens in a list: every add is kept
RECURSIVE sorted_list(_)
sorted_list(tokens) ==
    IF tokens = <<>> THEN <<>>
    ELSE LET m == CHOOSE i \in 1..Len(tokens) :
                      \A j \in 1..Len(tokens) : ~LexLess(tokens[j], tokens[i])
         IN  <<tokens[m]>> \o sorted_list(SubSeq(tokens, 1, m - 1)
                                             \o SubSeq(tokens, m + 1, Len(tokens)))

\* found = set(); found.add(token) for each token; return sorted(found)
sorted_found(tokens) == sorted(Range(tokens))

find_codes_in_text(txt) ==
    sorted_found(added(matches(1, normalize(txt))))

\* ------------------------------------------------------------- text: inputs
MaxPieces == 5      \* pieces a text is put together from

\* the pieces: groups in both cases, a short group, the marker word, the
\* separators the patterns accept, a dash the normalisation replaces, punctuation,
\* and a word character that is not in [A-Z0-9]
Pieces ==
    { <<"A", "B", "C", "D">>, <<"1", "2", "3", "4">>, <<"a", "b", "c", "d">>,
      <<"E", "F">>, Shift, <<"-">>, <<" ">>, <<EnDash>>, <<".">>, <<"_">> }

RECURSIVE TextsOf(_)
TextsOf(n) ==
    IF n = 0 THEN {<<>>}
    ELSE LET T == TextsOf(n - 1) IN T \cup {t \o p : t \in T, p \in Pieces}

\* "ABCD-EFGH-1234" and "abcd efgh 1234"
UpperHyphen ==
    <<"A", "B", "C", "D", "-", "E", "F", "G", "H", "-", "1", "2", "3", "4">>

LowerSpace ==
    <<"a", "b", "c", "d", " ", "e", "f", "g", "h", " ", "1", "2", "3", "4">>

\* "Redeem code SHIFT-ABCD-1234-EFGH for Golden Keys"
RedeemText ==
    <<"R", "e", "d", "e", "e", "m", " ", "c", "o", "d", "e", " ">>
        \o Shift \o <<"-", "A", "B", "C", "D", "-", "1", "2", "3", "4", "-",
                      "E", "F", "G", "H", " ", "f", "o", "r", " ",
                      "G", "o", "l", "d", "e", "n", " ", "K", "e", "y", "s">>

\* "SHIFT-ABCD-1234. ABCD-1234"
TwoCodes ==
    Shift \o <<"-", "A", "B", "C", "D", "-", "1", "2", "3", "4", ".", " ",
               "A", "B", "C", "D", "-", "1", "2", "3", "4">>

Texts == TextsOf(MaxPieces) \cup {UpperHyphen, LowerSpace, RedeemText, TwoCodes}

\* ------------------------------------------------------------- html: documents
\* A parsed document is a sequence of nodes. A node is a text node (tag "#text",
\* its characters in text) or an element (its tag name, its children in kids).
TextNode(t) == [tag |-> "#text", text |-> t, kids |-> <<>>]

Element(name, kids) == [tag |-> name, text |-> <<>>, kids |-> kids]

MaxDepth == 2       \* nesting of elements in a document
MaxNodes == 2       \* nodes at the top of a document

\* the element names of the documents: a visible one, the four the text is
\* taken out of, and the name the source writes
Tags == {"p", "script", "style", "head", "noscript", "scipt"}

\* html.parser reads the content of these two as text only
RawTags == {"script", "style"}

\* the text of a node: a code or a word of prose
CodeText == <<"A", "B", "C", "D", "-", "1", "2", "3", "4">>

Prose == <<"h", "i">>

TextNodes == {TextNode(CodeText), TextNode(Prose)}

RECURSIVE NodesOf(_)
NodesOf(d) ==
    IF d = 0 THEN TextNodes
    ELSE LET N == NodesOf(d - 1)
         IN  N \cup {Element(t, <<>>) : t \in Tags}
               \cup {Element(t, <<n>>) : t \in Tags \ RawTags, n \in N}
               \cup {Element(t, <<n>>) : t \in RawTags, n \in TextNodes}

RECURSIVE DocsOf(_)
DocsOf(k) ==
    IF k = 0 THEN {<<>>}
    ELSE LET D == DocsOf(k - 1) IN D \cup {d \o <<n>> : d \in D, n \in NodesOf(MaxDepth)}

Docs == DocsOf(MaxNodes)

\* ------------------------------------------------------------- html: extract_text_from_html
\* the names in the list handed to soup(...)
Extracted == {"scipt", "style", "head", "noscript"}

\* for s in soup(names): s.extract() -- every element with one of the names is
\* taken out of the tree with its subtree
RECURSIVE extract(_, _)
extract(nodes, names) ==
    IF nodes = <<>> THEN <<>>
    ELSE LET n == Head(nodes)
         IN  (IF n.tag \in names THEN <<>>
              ELSE <<[n EXCEPT !.kids = extract(n.kids, names)]>>)
                 \o extract(Tail(nodes), names)

\* the elements whose text BeautifulSoup 4.9 and later keeps in a string class
\* of its own, which get_text leaves out
Containers == {"script", "style"}

\* the strings get_text yields, in document order; parent is the element the
\* nodes are children of, kept says whether the library has string containers
RECURSIVE strings(_, _, _)
strings(nodes, parent, kept) ==
    IF nodes = <<>> THEN <<>>
    ELSE LET n == Head(nodes)
             mine == IF n.tag = "#text"
                     THEN IF kept /\ parent \in Containers THEN <<>> ELSE <<n.text>>
                     ELSE strings(n.kids, n.tag, kept)
         IN  mine \o strings(Tail(nodes), parent, kept)

\* separator.join(strs)
RECURSIVE Join(_, _)
Join(strs, sep) ==
    IF strs = <<>> THEN <<>>
    ELSE IF Len(strs) = 1 THEN strs[1]
    ELSE strs[1] \o <<sep>> \o Join(Tail(strs), sep)

\* soup.get_text(separator="\n")
get_text(nodes, kept) == Join(strings(nodes, "[document]", kept), "\n")

extract_text_from_html(doc, kept) == get_text(extract(doc, Extracted), kept)

\* ------------------------------------------------------------- one source of scan_sources
\* main is not invoked: the state of the runs as Init has it, no source configured
NoRuns ==
    /\ cfg = [sources |-> <<>>, webhook |-> "", email_host |-> ""]
    /\ db = [exists |-> FALSE, rows |-> <<>>]
    /\ lock = 0
    /\ txn = [r \in Runs |-> <<>>]
    /\ pc = [r \in Runs |-> "idle"]
    /\ fetched = [r \in Runs |-> NoFetch]
    /\ found = [r \in Runs |-> <<>>]
    /\ pairs = [r \in Runs |-> <<>>]
    /\ idx = [r \in Runs |-> 1]
    /\ now = [r \in Runs |-> 1]
    /\ new = [r \in Runs |-> <<>>]
    /\ attempts = [r \in Runs |-> <<>>]
    /\ hookCalls = [r \in Runs |-> <<>>]
    /\ mailCalls = [r \in Runs |-> <<>>]
    /\ prior = [r \in Runs |-> {}]
    /\ fetches = [r \in Runs |-> <<>>]

\* a source of type html has been fetched; the installed BeautifulSoup has
\* string classes for script and style, or has none
InitHtml ==
    /\ NoRuns
    /\ html \in Docs
    /\ stringClasses \in BOOLEAN
    /\ text = <<>>
    /\ scanCodes = <<>>
    /\ step = "fetched"

\* a source of type text has been fetched: its content is the text as it is
InitText ==
    /\ NoRuns
    /\ html = <<>>
    /\ stringClasses = FALSE
    /\ text \in Texts
    /\ scanCodes = <<>>
    /\ step = "text"

\* scan_sources: text = extract_text_from_html(text)
ExtractText ==
    /\ step = "fetched"
    /\ text' = extract_text_from_html(html, stringClasses)
    /\ step' = "text"
    /\ UNCHANGED <<html, stringClasses, scanCodes>>
    /\ UNCHANGED runVars

\* scan_sources: codes = find_codes_in_text(text)
FindCodes ==
    /\ step = "text"
    /\ scanCodes' = find_codes_in_text(text)
    /\ step' = "scanned"
    /\ UNCHANGED <<html, stringClasses, text>>
    /\ UNCHANGED runVars

NextHtml == ExtractText \/ FindCodes

SpecHtml == InitHtml /\ [][NextHtml]_vars

NextText == FindCodes

SpecText == InitText /\ [][NextText]_vars

\* ------------------------------------------------------------- properties of the scan of one source
\* the elements whose text is not visible
Hidden == {"script", "style", "head", "noscript"}

\* the texts of the text nodes that lie in no element named in names, in
\* document order
RECURSIVE TextsOutside(_, _)
TextsOutside(nodes, names) ==
    IF nodes = <<>> THEN <<>>
    ELSE LET n == Head(nodes)
             mine == IF n.tag = "#text" THEN <<n.text>>
                     ELSE IF n.tag \in names THEN <<>>
                     ELSE TextsOutside(n.kids, names)
         IN  mine \o TextsOutside(Tail(nodes), names)

\* the lines of a text: its pieces between the newlines
RECURSIVE Lines(_, _)
Lines(txt, line) ==
    IF txt = <<>> THEN (IF line = <<>> THEN <<>> ELSE <<line>>)
    ELSE IF Head(txt) = "\n" THEN <<line>> \o Lines(Tail(txt), <<>>)
    ELSE Lines(Tail(txt), Append(line, Head(txt)))

\* a is b with some of its members left out
RECURSIVE IsSubSeq(_, _)
IsSubSeq(a, b) ==
    IF a = <<>> THEN TRUE
    ELSE IF b = <<>> THEN FALSE
    ELSE IF Head(a) = Head(b) THEN IsSubSeq(Tail(a), Tail(b))
    ELSE IsSubSeq(a, Tail(b))

\* extract_text_from_html has returned for the fetched document
TextTaken == step \in {"text", "scanned"} /\ html # <<>>

\* find_codes_in_text has returned
ScanDone == step = "scanned"

\* the tokens find_codes_in_text hands to found.add for the text, in order
Added == added(matches(1, normalize(text)))

\* C12: the text extract_text_from_html returns is made of text nodes that lie
\* outside every script, style, head and noscript element: the subtrees of these
\* four kinds are gone before the text is taken.
C12_HiddenTextRemoved ==
    TextTaken => IsSubSeq(Lines(text, <<>>), TextsOutside(html, Hidden))

\* C13: the sequence find_codes_in_text returns is strictly ascending in
\* lexicographic order, so it is sorted and holds no token twice, also when two
\* patterns gave the same token.
C13_StrictlyAscending ==
    ScanDone =>
        \A i \in 1..(Len(scanCodes) - 1) : LexLess(scanCodes[i], scanCodes[i + 1])

\* C13 witness: a text with two codes, one of them matched by two patterns, so
\* that more tokens were added than are returned.
C13_Witness ==
    /\ ScanDone
    /\ Len(scanCodes) >= 2
    /\ Len(Added) > Len(scanCodes)
    /\ \E m \in Range(findall(1, normalize(text), 1)) :
           m \in Range(findall(2, normalize(text), 1))

\* the ways of writing a text differently that the normalisation undoes: the
\* case of its letters (all lower, all upper, each one swapped, every second one
\* swapped), and a hyphen (all of them, or one) written as a space, an en dash
\* or an em dash
swapcase == [c \in Chars |-> IF upper[c] = c THEN lower[c] ELSE upper[c]]

Recased(txt) ==
    { [i \in 1..Len(txt) |-> lower[txt[i]]],
      [i \in 1..Len(txt) |-> upper[txt[i]]],
      [i \in 1..Len(txt) |-> swapcase[txt[i]]],
      [i \in 1..Len(txt) |-> IF i % 2 = 0 THEN swapcase[txt[i]] ELSE txt[i]] }

Reseparated(txt) ==
    UNION {{[i \in 1..Len(txt) |-> IF txt[i] = "-" THEN c ELSE txt[i]]}
              \cup {[txt EXCEPT ![i] = c] : i \in {k \in 1..Len(txt) : txt[k] = "-"}} :
           c \in {" ", EnDash, EmDash}}

Rewritten(txt) ==
    Recased(txt) \cup Reseparated(txt)
        \cup UNION {Reseparated(t) : t \in {[i \in 1..Len(txt) |-> lower[txt[i]]]}}

\* C14: find_codes_in_text returns the same sequence for a text and for the text
\* with the case of letters changed or with hyphens written as single spaces,
\* en dashes or em dashes; "ABCD-EFGH-1234" and "abcd efgh 1234" give the same.
C14_SameAfterRewriting ==
    ScanDone =>
        /\ \A t \in Rewritten(text) : find_codes_in_text(t) = scanCodes
        /\ (text = UpperHyphen => LowerSpace \in Rewritten(text))

\* C14 witness: "ABCD-EFGH-1234" has been scanned and gave itself as the one
\* token, as "abcd efgh 1234" does.
C14_Witness ==
    /\ ScanDone
    /\ text = UpperHyphen
    /\ scanCodes = <<UpperHyphen>>
    /\ find_codes_in_text(LowerSpace) = <<UpperHyphen>>

\* "SHIFT-ABCD-1234-EFGH"
ShiftCode ==
    Shift \o <<"-", "A", "B", "C", "D", "-", "1", "2", "3", "4", "-", "E", "F", "G", "H">>

\* C15: for "Redeem code SHIFT-ABCD-1234-EFGH for Golden Keys" the returned
\* sequence holds "SHIFT-ABCD-1234-EFGH", while no match of the group pattern is
\* that token: its first match runs from "REDEEM" into the code.
C15_RedeemExample ==
    (ScanDone /\ text = RedeemText) =>
        /\ \E i \in 1..Len(scanCodes) : scanCodes[i] = ShiftCode
        /\ \A m \in Range(findall(1, normalize(text), 1)) : m # ShiftCode
        /\ Len(findall(1, normalize(text), 1)[1]) > Len(ShiftCode)

\* C15 witness: the text of the example has been scanned and the token is in
\* the result.
C15_Witness ==
    /\ ScanDone
    /\ text = RedeemText
    /\ ShiftCode \in Range(scanCodes)

\* C16: every returned token has at least MinLen characters, does not begin or
\* end with a hyphen, period, comma, semicolon or colon, and holds no whitespace.
C16_TokenShape ==
    ScanDone =>
        \A i \in 1..Len(scanCodes) :
            LET token == scanCodes[i]
            IN  /\ Len(token) >= MinLen
                /\ token[1] \notin Punct
                /\ token[Len(token)] \notin Punct
                /\ \A k \in 1..Len(token) : token[k] \notin Space

\* C16 witness: a token was returned for a match that held whitespace, from a
\* text with punctuation at the end of the code.
C16_Witness ==
    /\ ScanDone
    /\ scanCodes # <<>>
    /\ \E m \in Range(matches(1, normalize(text))) : \E k \in 1..Len(m) : m[k] \in Space
    /\ \E p \in 2..Len(text) : text[p] \in Punct /\ text[p - 1] \in Alnum

====
